---- MODULE Spec2Model ----
(***************************************************************************)
(* rod: dot-separated bucket locations over a BoltDB transaction.          *)
(*                                                                         *)
(* A Go string is a sequence of one-character strings, a []byte is a       *)
(* record [isnil, bytes] (a nil slice and an empty non-nil slice differ),  *)
(* and the store seen through the open transaction is a function from      *)
(* paths (sequences of names, root first) to entries.  A bucket and a      *)
(* key/value pair of the same name share one namespace in their parent,    *)
(* as they do in BoltDB.  The transaction is a writable one (db.Update).   *)
(***************************************************************************)
EXTENDS Integers, Sequences, FiniteSets, TLC

VARIABLES store, last

vars == <<store, last>>

--------------------------------------------------------------------------
(* Bounds and input alphabets *)

\* most segments a location is split into
MaxSegs == 3

Sep == "."

\* a segment is empty or names a bucket
Segments == {<<>>, <<"a">>}

\* "k" names no bucket; "a" may name a bucket and a key of the same parent
Keys == {<<>>, <<"a">>, <<"k">>}

SegSeqs == UNION {[1..n -> Segments] : n \in 1..MaxSegs}

RECURSIVE Join(_)
Join(segs) ==
    IF Len(segs) = 1 THEN segs[1]
    ELSE segs[1] \o <<Sep>> \o Join(Tail(segs))

Locations == {Join(segs) : segs \in SegSeqs}

NilSlice == [isnil |-> TRUE, bytes |-> <<>>]

Slice(bs) == [isnil |-> FALSE, bytes |-> bs]

Values == {NilSlice, Slice(<<>>), Slice(<<"x">>)}

\* longest Username of a record given to PutJson
MaxStrLen == 1

\* "xFF" is a byte that is no valid UTF-8, "uFFFD" the replacement rune
StrChars == {"a", "\"", "\\", "xFF"}

StringsOver(chars, n) == UNION {[1..k -> chars] : k \in 0..n}

\* type User struct { Username string; Logins int }
Users == [Username : StringsOver(StrChars, MaxStrLen), Logins : {-12, 7}]

ZeroUser == [Username |-> <<>>, Logins |-> 0]

\* what PutJson is given: a User, or a value json.Marshal refuses (a chan)
JsonInputs ==
    {[chan |-> FALSE, user |-> u] : u \in Users}
        \cup {[chan |-> TRUE, user |-> ZeroUser]}

\* what the caller's out holds before GetJson
Outs == {ZeroUser, [Username |-> <<"o">>, Logins |-> 1]}

JsonLocations == {<<>>, <<"a">>, <<"a", Sep, "a">>}

JsonKeys == {<<>>, <<"k">>}

--------------------------------------------------------------------------
(* Errors *)

NoErr == "nil"

ErrLocationMustHaveAtLeastOneBucket == "location must specify at least one bucket"

ErrInvalidLocationBucket == "invalid location bucket"

ErrKeyNotProvided == "key must be specified"

\* errors of the store
ErrIncompatibleValue == "incompatible value"

ErrBucketNameRequired == "bucket name required"

ErrKeyRequired == "key required"

\* errors of encoding/json
ErrUnsupportedType == "json: unsupported type"

ErrSyntax == "json: syntax error"

ErrUnmarshalType == "json: cannot unmarshal into field"

--------------------------------------------------------------------------
(* The BoltDB primitives rod calls *)

BucketEntry == [bucket |-> TRUE, v |-> NilSlice]

ValueEntry(value) == [bucket |-> FALSE, v |-> value]

\* the transaction's root bucket
Root == <<>>

NilBucket == [ok |-> FALSE, path |-> <<>>]

BucketAt(p) == [ok |-> TRUE, path |-> p]

\* tx.CreateBucketIfNotExists / b.CreateBucketIfNotExists
CreateBucketIfNotExists(st, parent, name) ==
    LET p == Append(parent, name) IN
    IF name = <<>>
    THEN [st |-> st, b |-> NilBucket, err |-> ErrBucketNameRequired]
    ELSE IF p \in DOMAIN st
    THEN IF st[p].bucket
         THEN [st |-> st, b |-> BucketAt(p), err |-> NoErr]
         ELSE [st |-> st, b |-> NilBucket, err |-> ErrIncompatibleValue]
    ELSE [st |-> (p :> BucketEntry) @@ st, b |-> BucketAt(p), err |-> NoErr]

\* tx.Bucket / b.Bucket: nil when the name is missing or names a plain value
Bucket(st, parent, name) ==
    LET p == Append(parent, name) IN
    IF p \in DOMAIN st /\ st[p].bucket THEN BucketAt(p) ELSE NilBucket

\* b.Put: the slice is kept as given until the transaction commits
BucketPut(st, b, key, value) ==
    LET p == Append(b, key) IN
    IF key = <<>>
    THEN [st |-> st, err |-> ErrKeyRequired]
    ELSE IF p \in DOMAIN st /\ st[p].bucket
    THEN [st |-> st, err |-> ErrIncompatibleValue]
    ELSE [st |-> (p :> ValueEntry(value)) @@ st, err |-> NoErr]

\* b.Get: nil when the key is missing or names a nested bucket
BucketGet(st, b, key) ==
    LET p == Append(b, key) IN
    IF p \in DOMAIN st /\ ~st[p].bucket THEN st[p].v ELSE NilSlice

\* b.Delete: no error when the key is missing; a nested bucket is refused
BucketDelete(st, b, key) ==
    LET p == Append(b, key) IN
    IF p \notin DOMAIN st THEN [st |-> st, err |-> NoErr]
    ELSE IF st[p].bucket THEN [st |-> st, err |-> ErrIncompatibleValue]
    ELSE [st |-> [q \in DOMAIN st \ {p} |-> st[q]], err |-> NoErr]

\* byte value of a character of a key
Code(c) ==
    CASE c = Sep -> 46
      [] c = "a" -> 97
      [] c = "k" -> 107
      [] c = "x" -> 120

\* bytes.Compare(s, t) < 0
RECURSIVE BytesLess(_, _)
BytesLess(s, t) ==
    IF t = <<>> THEN FALSE
    ELSE IF s = <<>> THEN TRUE
    ELSE IF Head(s) # Head(t) THEN Code(Head(s)) < Code(Head(t))
    ELSE BytesLess(Tail(s), Tail(t))

\* the keys of the key/value pairs held directly by bucket b
EntryKeys(st, b) ==
    {p[Len(p)] : p \in {q \in DOMAIN st :
        /\ Len(q) = Len(b) + 1
        /\ SubSeq(q, 1, Len(b)) = b
        /\ ~st[q].bucket}}

\* b.ForEach over the key/value pairs: ascending byte order of the keys
RECURSIVE ForEachKey(_)
ForEachKey(keys) ==
    IF keys = {} THEN <<>>
    ELSE LET k == CHOOSE x \in keys : \A y \in keys \ {x} : BytesLess(x, y)
         IN <<k>> \o ForEachKey(keys \ {k})

\* tx.Commit: values are read back from the pages, never as nil slices
TxCommit(st) ==
    [p \in DOMAIN st |->
        IF st[p].bucket THEN st[p] ELSE ValueEntry(Slice(st[p].v.bytes))]

--------------------------------------------------------------------------
(* rod.go *)

\* strings.Split(s, ".")
RECURSIVE Split(_)
Split(s) ==
    IF \A i \in 1..Len(s) : s[i] # Sep
    THEN <<s>>
    ELSE LET i == CHOOSE k \in 1..Len(s) :
                      s[k] = Sep /\ \A j \in 1..(k - 1) : s[j] # Sep
         IN <<SubSeq(s, 1, i - 1)>> \o Split(SubSeq(s, i + 1, Len(s)))

\* PutWalk with the handle of the nested bucket dropped (_, err = ...), so
\* that every bucket is created in the first one and the key is put there
RECURSIVE PutWalkKeepsTop(_, _, _)
PutWalkKeepsTop(st, b, names) ==
    IF names = <<>> THEN [st |-> st, b |-> b, err |-> NoErr]
    ELSE IF Head(names) = <<>>
    THEN [st |-> st, b |-> b, err |-> ErrInvalidLocationBucket]
    ELSE LET c == CreateBucketIfNotExists(st, b.path, Head(names)) IN
         IF c.err # NoErr THEN c
         ELSE PutWalkKeepsTop(c.st, b, Tail(names))

\* PutWalk without the test for an empty name
RECURSIVE PutWalkNoCheck(_, _, _)
PutWalkNoCheck(st, b, names) ==
    IF names = <<>> THEN [st |-> st, b |-> b, err |-> NoErr]
    ELSE LET c == CreateBucketIfNotExists(st, b.path, Head(names)) IN
         IF c.err # NoErr THEN c
         ELSE PutWalkNoCheck(c.st, c.b, Tail(names))

\* Put's loop over buckets[1:]
RECURSIVE PutWalk(_, _, _)
PutWalk(st, b, names) ==
    IF names = <<>> THEN [st |-> st, b |-> b, err |-> NoErr]
    ELSE IF Head(names) = <<>>
    THEN [st |-> st, b |-> b, err |-> ErrInvalidLocationBucket]
    ELSE LET c == CreateBucketIfNotExists(st, b.path, Head(names)) IN
         IF c.err # NoErr THEN c
         ELSE PutWalk(c.st, c.b, Tail(names))

\* Put with the key tested only once the buckets are there
PutKeyCheckedLate(st, location, key, value) ==
    IF location = <<>>
    THEN [st |-> st, err |-> ErrLocationMustHaveAtLeastOneBucket]
    ELSE LET buckets == Split(location) IN
         IF buckets[1] = <<>>
         THEN [st |-> st, err |-> ErrInvalidLocationBucket]
         ELSE LET top == CreateBucketIfNotExists(st, Root, buckets[1]) IN
              IF top.err # NoErr THEN [st |-> top.st, err |-> top.err]
              ELSE LET w == PutWalk(top.st, top.b, Tail(buckets)) IN
                   IF w.err # NoErr THEN [st |-> w.st, err |-> w.err]
                   ELSE IF key = <<>>
                   THEN [st |-> w.st, err |-> ErrKeyNotProvided]
                   ELSE BucketPut(w.st, w.b.path, key, value)

Put(st, location, key, value) ==
    IF location = <<>>
    THEN [st |-> st, err |-> ErrLocationMustHaveAtLeastOneBucket]
    ELSE IF key = <<>>
    THEN [st |-> st, err |-> ErrKeyNotProvided]
    ELSE LET buckets == Split(location) IN
         IF buckets[1] = <<>>
         THEN [st |-> st, err |-> ErrInvalidLocationBucket]
         ELSE LET top == CreateBucketIfNotExists(st, Root, buckets[1]) IN
              IF top.err # NoErr THEN [st |-> top.st, err |-> top.err]
              ELSE LET w == PutWalk(top.st, top.b, Tail(buckets)) IN
                   IF w.err # NoErr THEN [st |-> w.st, err |-> w.err]
                   ELSE BucketPut(w.st, w.b.path, key, value)

\* GetWalk reporting a missing nested bucket as an error
RECURSIVE GetWalkMissingIsError(_, _, _)
GetWalkMissingIsError(st, b, names) ==
    IF names = <<>> THEN [st |-> st, b |-> b, err |-> NoErr]
    ELSE IF Head(names) = <<>>
    THEN [st |-> st, b |-> NilBucket, err |-> ErrInvalidLocationBucket]
    ELSE LET c == Bucket(st, b.path, Head(names)) IN
         IF ~c.ok
         THEN [st |-> st, b |-> NilBucket, err |-> ErrInvalidLocationBucket]
         ELSE GetWalkMissingIsError(st, c, Tail(names))

\* GetBucket's loop over buckets[1:]
RECURSIVE GetWalk(_, _, _)
GetWalk(st, b, names) ==
    IF names = <<>> THEN [st |-> st, b |-> b, err |-> NoErr]
    ELSE IF Head(names) = <<>>
    THEN [st |-> st, b |-> NilBucket, err |-> ErrInvalidLocationBucket]
    ELSE LET c == Bucket(st, b.path, Head(names)) IN
         IF ~c.ok THEN [st |-> st, b |-> NilBucket, err |-> NoErr]
         ELSE GetWalk(st, c, Tail(names))

\* GetBucket opening the first bucket as Put does
GetBucketCreating(st, location) ==
    IF location = <<>>
    THEN [st |-> st, b |-> NilBucket, err |-> ErrLocationMustHaveAtLeastOneBucket]
    ELSE LET buckets == Split(location) IN
         IF buckets[1] = <<>>
         THEN [st |-> st, b |-> NilBucket, err |-> ErrInvalidLocationBucket]
         ELSE LET top == CreateBucketIfNotExists(st, Root, buckets[1]) IN
              IF top.err # NoErr THEN top
              ELSE GetWalk(top.st, top.b, Tail(buckets))

\* GetBucket reporting a missing first bucket as an error
GetBucketMissingIsError(st, location) ==
    IF location = <<>>
    THEN [st |-> st, b |-> NilBucket, err |-> ErrLocationMustHaveAtLeastOneBucket]
    ELSE LET buckets == Split(location) IN
         IF buckets[1] = <<>>
         THEN [st |-> st, b |-> NilBucket, err |-> ErrInvalidLocationBucket]
         ELSE LET top == Bucket(st, Root, buckets[1]) IN
              IF ~top.ok
              THEN [st |-> st, b |-> NilBucket, err |-> ErrInvalidLocationBucket]
              ELSE GetWalk(st, top, Tail(buckets))

\* GetBucket without the loop: the first bucket is returned
GetBucketTop(st, location) ==
    IF location = <<>>
    THEN [st |-> st, b |-> NilBucket, err |-> ErrLocationMustHaveAtLeastOneBucket]
    ELSE LET buckets == Split(location) IN
         IF buckets[1] = <<>>
         THEN [st |-> st, b |-> NilBucket, err |-> ErrInvalidLocationBucket]
         ELSE LET top == Bucket(st, Root, buckets[1]) IN
              IF ~top.ok THEN [st |-> st, b |-> NilBucket, err |-> NoErr]
              ELSE [st |-> st, b |-> top, err |-> NoErr]

GetBucket(st, location) ==
    IF location = <<>>
    THEN [st |-> st, b |-> NilBucket, err |-> ErrLocationMustHaveAtLeastOneBucket]
    ELSE LET buckets == Split(location) IN
         IF buckets[1] = <<>>
         THEN [st |-> st, b |-> NilBucket, err |-> ErrInvalidLocationBucket]
         ELSE LET top == Bucket(st, Root, buckets[1]) IN
              IF ~top.ok THEN [st |-> st, b |-> NilBucket, err |-> NoErr]
              ELSE GetWalk(st, top, Tail(buckets))

\* Get with the key tested before the bucket is looked up
GetKeyFirst(st, location, key) ==
    IF key = <<>> THEN [st |-> st, val |-> NilSlice, err |-> ErrKeyNotProvided]
    ELSE LET g == GetBucket(st, location) IN
         IF g.err # NoErr THEN [st |-> g.st, val |-> NilSlice, err |-> g.err]
         ELSE IF ~g.b.ok THEN [st |-> g.st, val |-> NilSlice, err |-> NoErr]
         ELSE [st |-> g.st, val |-> BucketGet(g.st, g.b.path, key), err |-> NoErr]

Get(st, location, key) ==
    LET g == GetBucket(st, location) IN
    IF g.err # NoErr THEN [st |-> g.st, val |-> NilSlice, err |-> g.err]
    ELSE IF ~g.b.ok THEN [st |-> g.st, val |-> NilSlice, err |-> NoErr]
    ELSE IF key = <<>> THEN [st |-> g.st, val |-> NilSlice, err |-> ErrKeyNotProvided]
    ELSE [st |-> g.st, val |-> BucketGet(g.st, g.b.path, key), err |-> NoErr]

--------------------------------------------------------------------------
(* encoding/json, for a User *)

UsernameField == <<"U", "s", "e", "r", "n", "a", "m", "e">>

LoginsField == <<"L", "o", "g", "i", "n", "s">>

Digits == <<"0", "1", "2", "3", "4", "5", "6", "7", "8", "9">>

IsDigit(c) == \E d \in 1..10 : Digits[d] = c

DigitVal(c) == (CHOOSE d \in 1..10 : Digits[d] = c) - 1

\* strconv.AppendInt
RECURSIVE FormatNat(_)
FormatNat(n) ==
    IF n < 10 THEN <<Digits[n + 1]>>
    ELSE FormatNat(n \div 10) \o <<Digits[(n % 10) + 1]>>

FormatInt(n) == IF n < 0 THEN <<"-">> \o FormatNat(-n) ELSE FormatNat(n)

\* one character of a string, as the encoder writes it: the quote and the
\* backslash are escaped, a byte that is no valid UTF-8 becomes \ufffd
EscapeChar(c) ==
    IF c = "\"" \/ c = "\\" THEN <<"\\", c>>
    ELSE IF c = "xFF" THEN <<"\\", "u", "f", "f", "f", "d">>
    ELSE <<c>>

RECURSIVE EscapeAll(_)
EscapeAll(str) ==
    IF str = <<>> THEN <<>> ELSE EscapeChar(Head(str)) \o EscapeAll(Tail(str))

EncodeString(str) == <<"\"">> \o EscapeAll(str) \o <<"\"">>

EncodeUser(u) ==
    <<"{">> \o EncodeString(UsernameField) \o <<":">> \o EncodeString(u.Username)
        \o <<",">> \o EncodeString(LoginsField) \o <<":">> \o FormatInt(u.Logins)
        \o <<"}">>

\* json.Marshal(v)
Marshal(v) ==
    IF v.chan THEN [bytes |-> NilSlice, err |-> ErrUnsupportedType]
    ELSE [bytes |-> Slice(EncodeUser(v.user)), err |-> NoErr]

\* the decoder, after a string's opening quote
RECURSIVE ScanString(_, _)
ScanString(s, acc) ==
    IF s = <<>> THEN [ok |-> FALSE, str |-> <<>>, rest |-> <<>>]
    ELSE IF s[1] = "\"" THEN [ok |-> TRUE, str |-> acc, rest |-> Tail(s)]
    ELSE IF s[1] = "\\"
    THEN IF Len(s) >= 2 /\ (s[2] = "\"" \/ s[2] = "\\")
         THEN ScanString(SubSeq(s, 3, Len(s)), Append(acc, s[2]))
         ELSE IF Len(s) >= 6 /\ SubSeq(s, 2, 6) = <<"u", "f", "f", "f", "d">>
         THEN ScanString(SubSeq(s, 7, Len(s)), Append(acc, "uFFFD"))
         ELSE [ok |-> FALSE, str |-> <<>>, rest |-> <<>>]
    ELSE IF s[1] = "xFF" THEN ScanString(Tail(s), Append(acc, "uFFFD"))
    ELSE ScanString(Tail(s), Append(acc, s[1]))

RECURSIVE ScanDigits(_, _)
ScanDigits(s, n) ==
    IF s # <<>> /\ IsDigit(s[1])
    THEN ScanDigits(Tail(s), 10 * n + DigitVal(s[1]))
    ELSE [n |-> n, rest |-> s]

\* the decoder, at a number: -? (0 | [1-9][0-9]*)
ScanNumber(s) ==
    LET neg == s # <<>> /\ s[1] = "-"
        t == IF neg THEN Tail(s) ELSE s
    IN  IF t = <<>> \/ ~IsDigit(t[1]) THEN [ok |-> FALSE, n |-> 0, rest |-> <<>>]
        ELSE IF t[1] = "0" THEN [ok |-> TRUE, n |-> 0, rest |-> Tail(t)]
        ELSE LET d == ScanDigits(t, 0)
             IN [ok |-> TRUE, n |-> IF neg THEN -d.n ELSE d.n, rest |-> d.rest]

ScanFail(out) == [ok |-> FALSE, out |-> out, terr |-> FALSE, rest |-> <<>>]

\* the decoder, at a member of an object: "name":value, then , or }
\* A value of the wrong kind for its field is skipped and reported at the end.
RECURSIVE ScanMembers(_, _, _)
ScanMembers(s, out, terr) ==
    IF s = <<>> \/ s[1] # "\"" THEN ScanFail(out)
    ELSE
    LET k == ScanString(Tail(s), <<>>)
        after(o, e, rest) ==
            IF rest # <<>> /\ rest[1] = "," THEN ScanMembers(Tail(rest), o, e)
            ELSE IF rest # <<>> /\ rest[1] = "}"
            THEN [ok |-> TRUE, out |-> o, terr |-> e, rest |-> Tail(rest)]
            ELSE ScanFail(out)
    IN  IF ~k.ok \/ k.rest = <<>> \/ k.rest[1] # ":" THEN ScanFail(out)
        ELSE
        LET body == Tail(k.rest) IN
        IF body # <<>> /\ body[1] = "\""
        THEN LET v == ScanString(Tail(body), <<>>) IN
             IF ~v.ok THEN ScanFail(out)
             ELSE IF k.str = UsernameField
             THEN after([out EXCEPT !.Username = v.str], terr, v.rest)
             ELSE IF k.str = LoginsField THEN after(out, TRUE, v.rest)
             ELSE after(out, terr, v.rest)
        ELSE LET v == ScanNumber(body) IN
             IF ~v.ok THEN ScanFail(out)
             ELSE IF k.str = LoginsField
             THEN after([out EXCEPT !.Logins = v.n], terr, v.rest)
             ELSE IF k.str = UsernameField THEN after(out, TRUE, v.rest)
             ELSE after(out, terr, v.rest)

\* json.Unmarshal(raw, &v), v holding a *User: the text is checked whole
\* before anything is written
Unmarshal(raw, out) ==
    IF Len(raw) < 2 \/ raw[1] # "{" THEN [out |-> out, err |-> ErrSyntax]
    ELSE IF raw = <<"{", "}">> THEN [out |-> out, err |-> NoErr]
    ELSE LET m == ScanMembers(Tail(raw), out, FALSE) IN
         IF ~m.ok \/ m.rest # <<>> THEN [out |-> out, err |-> ErrSyntax]
         ELSE IF m.terr THEN [out |-> m.out, err |-> ErrUnmarshalType]
         ELSE [out |-> m.out, err |-> NoErr]

\* PutJson handing Put the key for the location and the location for the key
PutJsonSwapped(st, location, key, v) ==
    LET m == Marshal(v) IN
    IF m.err # NoErr THEN [st |-> st, err |-> m.err]
    ELSE Put(st, key, location, m.bytes)

PutJson(st, location, key, v) ==
    LET m == Marshal(v) IN
    IF m.err # NoErr THEN [st |-> st, err |-> m.err]
    ELSE Put(st, location, key, m.bytes)

\* GetJson testing len(raw) == 0 where the code tests raw == nil
GetJsonLenCheck(st, location, key, out) ==
    LET g == Get(st, location, key) IN
    IF g.err # NoErr THEN [st |-> g.st, out |-> out, err |-> g.err]
    ELSE IF g.val.bytes = <<>> THEN [st |-> g.st, out |-> out, err |-> NoErr]
    ELSE LET u == Unmarshal(g.val.bytes, out) IN
         [st |-> g.st, out |-> u.out, err |-> u.err]

GetJson(st, location, key, out) ==
    LET g == Get(st, location, key) IN
    IF g.err # NoErr THEN [st |-> g.st, out |-> out, err |-> g.err]
    ELSE IF g.val.isnil THEN [st |-> g.st, out |-> out, err |-> NoErr]
    ELSE LET u == Unmarshal(g.val.bytes, out) IN
         [st |-> g.st, out |-> u.out, err |-> u.err]

--------------------------------------------------------------------------
(* Del and AllKeys *)

\* Del: read-path resolution, then the store's delete
Del(st, location, key) ==
    LET g == GetBucket(st, location) IN
    IF g.err # NoErr THEN [st |-> g.st, err |-> g.err]
    ELSE IF ~g.b.ok THEN [st |-> g.st, err |-> NoErr]
    ELSE BucketDelete(g.st, g.b.path, key)

\* AllKeys: read-path resolution, then every key of the terminal bucket
AllKeys(st, location) ==
    LET g == GetBucket(st, location) IN
    IF g.err # NoErr THEN [st |-> g.st, keys |-> <<>>, err |-> g.err]
    ELSE IF ~g.b.ok THEN [st |-> g.st, keys |-> <<>>, err |-> NoErr]
    ELSE [st |-> g.st, keys |-> ForEachKey(EntryKeys(g.st, g.b.path)),
          err |-> NoErr]

--------------------------------------------------------------------------
(* Calls made through the open transaction *)

\* no call's result is held by the caller
NoCall ==
    [op |-> "none", location |-> <<>>, key |-> <<>>, value |-> NilSlice,
     err |-> NoErr, val |-> NilSlice, b |-> NilBucket, keys |-> <<>>,
     v |-> [chan |-> FALSE, user |-> ZeroUser], out0 |-> ZeroUser,
     out |-> ZeroUser, changed |-> FALSE]

Init ==
    /\ store = <<>>
    /\ last = NoCall

CallPutOn(locations, keys, values) ==
    /\ last = NoCall
    /\ \E location \in locations, key \in keys, value \in values :
        LET r == Put(store, location, key, value) IN
        /\ store' = r.st
        /\ last' = [NoCall EXCEPT !.op = "Put", !.changed = (r.st # store),
                        !.location = location,
                        !.key = key, !.value = value, !.err = r.err]

CallPut == CallPutOn(Locations, Keys, Values)

CallGet ==
    /\ last = NoCall
    /\ \E location \in Locations, key \in Keys :
        LET r == Get(store, location, key) IN
        /\ store' = r.st
        /\ last' = [NoCall EXCEPT !.op = "Get", !.changed = (r.st # store),
                        !.location = location,
                        !.key = key, !.err = r.err, !.val = r.val]

CallGetBucket ==
    /\ last = NoCall
    /\ \E location \in Locations :
        LET r == GetBucket(store, location) IN
        /\ store' = r.st
        /\ last' = [NoCall EXCEPT !.op = "GetBucket", !.changed = (r.st # store),
                        !.location = location,
                        !.err = r.err, !.b = r.b]

CallPutJson ==
    /\ last = NoCall
    /\ \E location \in JsonLocations, key \in JsonKeys, v \in JsonInputs :
        LET r == PutJson(store, location, key, v) IN
        /\ store' = r.st
        /\ last' = [NoCall EXCEPT !.op = "PutJson", !.changed = (r.st # store),
                        !.location = location,
                        !.key = key, !.v = v, !.err = r.err]

CallGetJsonOn(outs) ==
    /\ last = NoCall
    /\ \E location \in Locations, key \in Keys, out \in outs :
        LET r == GetJson(store, location, key, out) IN
        /\ store' = r.st
        /\ last' = [NoCall EXCEPT !.op = "GetJson", !.changed = (r.st # store),
                        !.location = location,
                        !.key = key, !.out0 = out, !.out = r.out,
                        !.err = r.err]

CallGetJson == CallGetJsonOn({ZeroUser})

CallDel ==
    /\ last = NoCall
    /\ \E location \in Locations, key \in Keys :
        LET r == Del(store, location, key) IN
        /\ store' = r.st
        /\ last' = [NoCall EXCEPT !.op = "Del", !.changed = (r.st # store),
                        !.location = location,
                        !.key = key, !.err = r.err]

CallAllKeys ==
    /\ last = NoCall
    /\ \E location \in Locations :
        LET r == AllKeys(store, location) IN
        /\ store' = r.st
        /\ last' = [NoCall EXCEPT !.op = "AllKeys", !.changed = (r.st # store),
                        !.location = location,
                        !.err = r.err, !.keys = r.keys]

\* the caller has looked at the result (check(err)) and goes on
Return ==
    /\ last # NoCall
    /\ last' = NoCall
    /\ UNCHANGED store

\* db.Update's closure returns nil: the transaction commits, a new one begins
Commit ==
    /\ last = NoCall
    /\ store' = TxCommit(store)
    /\ UNCHANGED last

Next ==
    \/ CallPut
    \/ CallGet
    \/ CallGetBucket
    \/ CallGetJson
    \/ CallDel
    \/ CallAllKeys
    \/ Return
    \/ Commit

Spec == Init /\ [][Next]_vars

\* the calls that store and read back encoded records
NextJson ==
    \/ CallPutJson
    \/ CallGetJsonOn(Outs)
    \/ CallPutOn(JsonLocations, JsonKeys, Values)
    \/ Return
    \/ Commit

SpecJson == Init /\ [][NextJson]_vars

--------------------------------------------------------------------------
(* Vocabulary of the properties *)

\* the segments a location names, by the dots between them
SegmentsOf(location) == CHOOSE segs \in SegSeqs : Join(segs) = location

WellFormed(location) ==
    \A i \in 1..Len(SegmentsOf(location)) : SegmentsOf(location)[i] # <<>>

Malformed(location) == location # <<>> /\ ~WellFormed(location)

FirstEmpty(segs) ==
    CHOOSE i \in 1..Len(segs) : segs[i] = <<>> /\ \A j \in 1..(i - 1) : segs[j] # <<>>

HasBucket(st, p) == p \in DOMAIN st /\ st[p].bucket

HasValue(st, p) == p \in DOMAIN st /\ ~st[p].bucket

\* the containers named by the first n segments all exist
ChainExists(st, segs, n) == \A i \in 1..n : HasBucket(st, SubSeq(segs, 1, i))

WholeChainExists(st, location) ==
    ChainExists(st, SegmentsOf(location), Len(SegmentsOf(location)))

\* some container is missing before any empty segment is met
MissingBeforeEmpty(st, segs) ==
    \E i \in 1..Len(segs) :
        /\ \A j \in 1..i : segs[j] # <<>>
        /\ ~HasBucket(st, SubSeq(segs, 1, i))

\* st with the containers named by the first n segments added
WithBuckets(st, segs, n) ==
    [p \in DOMAIN st \cup {SubSeq(segs, 1, i) : i \in 1..n} |->
        IF p \in DOMAIN st THEN st[p] ELSE BucketEntry]

ValidationErrors ==
    {ErrLocationMustHaveAtLeastOneBucket, ErrKeyNotProvided,
     ErrInvalidLocationBucket}

ReadOps == {"Get", "GetJson", "GetBucket"}

ValidUTF8(str) == \A i \in 1..Len(str) : str[i] # "xFF"

--------------------------------------------------------------------------
(* C1: whenever Put returns no error, a Get of the same location and key
   returns no error and the bytes Put was given, in the same transaction
   (the very slice) and after a commit (its bytes). *)
PutThenGet ==
    (last.op = "Put" /\ last.err = NoErr) =>
        LET g == Get(store, last.location, last.key)
            h == Get(TxCommit(store), last.location, last.key)
        IN  /\ WellFormed(last.location) /\ last.key # <<>>
            /\ g.err = NoErr /\ g.val = last.value
            /\ h.err = NoErr /\ h.val.bytes = last.value.bytes

\* a Put of a non-empty value into a nested container that succeeded
PutThenGetWitness ==
    /\ last.op = "Put" /\ last.err = NoErr /\ last.changed
    /\ Len(SegmentsOf(last.location)) = 2
    /\ last.value.bytes # <<>>

(* C2: a Get that finds a container of the chain missing before it meets an
   empty segment returns (nil, no error), whatever the key; a Get with a
   non-empty key on an existing terminal container that holds no value
   under the key returns (nil, no error). *)
GetSoftMiss ==
    last.op = "Get" =>
        LET segs == SegmentsOf(last.location) IN
        /\ MissingBeforeEmpty(store, segs) =>
                last.err = NoErr /\ last.val = NilSlice
        /\ ( /\ WellFormed(last.location)
             /\ WholeChainExists(store, last.location)
             /\ last.key # <<>>
             /\ ~HasValue(store, Append(segs, last.key)) ) =>
                last.err = NoErr /\ last.val = NilSlice

\* a Get with the empty key whose second container is missing
GetSoftMissWitness ==
    /\ last.op = "Get" /\ last.key = <<>>
    /\ WellFormed(last.location)
    /\ Len(SegmentsOf(last.location)) = 2
    /\ HasBucket(store, SubSeq(SegmentsOf(last.location), 1, 1))
    /\ ~WholeChainExists(store, last.location)
    /\ last.err = NoErr

(* C3 as stated: a location with an empty segment fails with
   ErrInvalidLocationBucket on the read path and on the write path (Put with
   a key), in every store state. *)
EmptySegmentAlwaysInvalid ==
    ( /\ Malformed(last.location)
      /\ \/ last.op \in {"Get", "GetBucket"}
         \/ last.op = "Put" /\ last.key # <<>> ) =>
        last.err = ErrInvalidLocationBucket

(* C3 as amended: on the read path a location with an empty segment fails
   with ErrInvalidLocationBucket exactly when every container named before
   the first empty segment exists, and yields (nil, no error) otherwise; Put
   with a non-empty key fails with ErrInvalidLocationBucket unless a segment
   before the first empty one names a plain key of its parent, which the
   store refuses. *)
EmptySegmentInvalidWhenReached ==
    Malformed(last.location) =>
        LET segs == SegmentsOf(last.location)
            e == FirstEmpty(segs)
        IN  /\ last.op \in {"Get", "GetBucket"} =>
                IF ChainExists(store, segs, e - 1)
                THEN last.err = ErrInvalidLocationBucket
                ELSE last.err = NoErr /\ last.val = NilSlice /\ ~last.b.ok
            /\ (last.op = "Put" /\ last.key # <<>>) =>
                IF \E i \in 1..(e - 1) : HasValue(store, SubSeq(segs, 1, i))
                THEN last.err = ErrIncompatibleValue
                ELSE last.err = ErrInvalidLocationBucket

\* a Get that walked through an existing container to an empty segment
EmptySegmentWitness ==
    /\ last.op = "Get"
    /\ SegmentsOf(last.location) = <<<<"a">>, <<>>, <<"a">>>>
    /\ last.err = ErrInvalidLocationBucket

(* C4 as stated: Get and Put with an empty key and a non-empty (here even
   well-formed) location fail with ErrKeyNotProvided in every store state. *)
EmptyKeyAlwaysRejected ==
    ( /\ last.op \in {"Get", "Put"}
      /\ last.key = <<>>
      /\ WellFormed(last.location) ) =>
        last.err = ErrKeyNotProvided

(* C4 as amended: Put with an empty key and a non-empty location fails with
   ErrKeyNotProvided in every store state; Get with an empty key fails with
   ErrKeyNotProvided exactly when the location is well-formed and all its
   containers exist: with a container missing it returns (nil, no error), and
   at an empty segment it fails with ErrInvalidLocationBucket. *)
EmptyKeyRejectedOnceResolved ==
    (last.key = <<>> /\ last.location # <<>>) =>
        /\ last.op = "Put" => last.err = ErrKeyNotProvided
        /\ last.op = "Get" =>
            IF WellFormed(last.location) /\ WholeChainExists(store, last.location)
            THEN last.err = ErrKeyNotProvided
            ELSE /\ last.err \in {NoErr, ErrInvalidLocationBucket}
                 /\ last.val = NilSlice

\* a Get with the empty key that resolved a nested container
EmptyKeyWitness ==
    /\ last.op = "Get" /\ last.key = <<>>
    /\ Len(SegmentsOf(last.location)) = 2
    /\ last.err = ErrKeyNotProvided

(* C5: Get, GetJson and GetBucket leave the store as it was, for every
   location and key and whatever they return. *)
ReadsNeverCreate == [][last'.op \in ReadOps => store' = store]_vars

\* a read of a location whose containers are missing from a non-empty store
ReadsNeverCreateWitness ==
    /\ last.op \in ReadOps
    /\ WellFormed(last.location)
    /\ ~WholeChainExists(store, last.location)
    /\ DOMAIN store # {}

(* C6: for a well-formed location and a key that names no nested container,
   Del returns no error whether the key holds a value, is absent, or the
   container is missing; after it a Get of the key returns (nil, no error)
   and a second Del succeeds and changes nothing. *)
DelIdempotent ==
    ( /\ last.op = "Del"
      /\ WellFormed(last.location)
      /\ last.key # <<>>
      /\ ~HasBucket(store, Append(SegmentsOf(last.location), last.key)) ) =>
        /\ last.err = NoErr
        /\ Get(store, last.location, last.key) =
                [st |-> store, val |-> NilSlice, err |-> NoErr]
        /\ Del(store, last.location, last.key) = [st |-> store, err |-> NoErr]

\* a Del that removed a value held by a nested container
DelWitness ==
    /\ last.op = "Del" /\ last.err = NoErr /\ last.changed
    /\ Len(SegmentsOf(last.location)) = 2

(* C7 as stated: whenever PutJson returns no error, GetJson of the same
   location and key returns no error and leaves in out the record that was
   encoded. *)
JsonRoundTrip ==
    (last.op = "PutJson" /\ last.err = NoErr) =>
        \A o \in Outs :
            GetJson(store, last.location, last.key, o) =
                [st |-> store, out |-> last.v.user, err |-> NoErr]

(* C7 as amended: whenever PutJson of a record whose strings are valid
   UTF-8 returns no error, GetJson of the same location and key, in the same
   transaction or after a commit, returns no error and leaves in out the
   record that was encoded. *)
JsonRoundTripValidUTF8 ==
    (last.op = "PutJson" /\ last.err = NoErr
        /\ ValidUTF8(last.v.user.Username)) =>
        \A o \in Outs :
            /\ GetJson(store, last.location, last.key, o) =
                    [st |-> store, out |-> last.v.user, err |-> NoErr]
            /\ GetJson(TxCommit(store), last.location, last.key, o) =
                    [st |-> TxCommit(store), out |-> last.v.user, err |-> NoErr]

\* a PutJson into a nested container of a record whose string needs escaping
JsonRoundTripWitness ==
    /\ last.op = "PutJson" /\ last.err = NoErr
    /\ Len(SegmentsOf(last.location)) = 2
    /\ last.v.user.Username = <<"\"">>
    /\ last.v.user.Logins < 0

(* C8 as stated: when Get reports no error and yields zero bytes (nil or
   empty), GetJson returns no error and leaves out as it was. *)
GetJsonSoftMissOnEmpty ==
    last.op = "GetJson" =>
        LET g == Get(store, last.location, last.key) IN
        (g.err = NoErr /\ g.val.bytes = <<>>) =>
            last.err = NoErr /\ last.out = last.out0

(* C8 as amended: when Get reports no error and yields nil (a container of
   the chain missing, the key missing, or naming a nested container),
   GetJson returns no error and leaves out as it was; whenever Get yields a
   non-nil value the decoder is run on it, and for a stored value of zero
   bytes its syntax error is returned, out left as it was. *)
GetJsonSoftMissOnNil ==
    last.op = "GetJson" =>
        LET g == Get(store, last.location, last.key) IN
        /\ g.err # NoErr => last.err = g.err /\ last.out = last.out0
        /\ (g.err = NoErr /\ g.val.isnil) =>
                last.err = NoErr /\ last.out = last.out0
        /\ (g.err = NoErr /\ ~g.val.isnil) =>
                [out |-> last.out, err |-> last.err] =
                    Unmarshal(g.val.bytes, last.out0)
        /\ (g.err = NoErr /\ ~g.val.isnil /\ g.val.bytes = <<>>) =>
                last.err = ErrSyntax /\ last.out = last.out0

\* a GetJson of a key that holds a committed value of zero bytes
GetJsonSoftMissWitness ==
    /\ last.op = "GetJson"
    /\ Get(store, last.location, last.key).val = Slice(<<>>)
    /\ last.out0 # ZeroUser
    /\ last.err = ErrSyntax

(* C9: AllKeys changes nothing; on a well-formed location whose container is
   missing it returns no keys and no error; on an existing container it
   returns the keys of its direct key/value pairs, each once, in ascending
   byte order. *)
AllKeysContract ==
    (last.op = "AllKeys" /\ WellFormed(last.location)) =>
        LET segs == SegmentsOf(last.location)
            held == {k \in Keys : HasValue(store, Append(segs, k))}
            ks == last.keys
        IN  /\ ~last.changed
            /\ last.err = NoErr
            /\ IF ChainExists(store, segs, Len(segs))
               THEN /\ Len(ks) = Cardinality(held)
                    /\ {ks[i] : i \in 1..Len(ks)} = held
                    /\ \A i, j \in 1..Len(ks) : i < j => BytesLess(ks[i], ks[j])
               ELSE ks = <<>>

\* an AllKeys of a nested container that holds two keys
AllKeysWitness ==
    /\ last.op = "AllKeys"
    /\ Len(SegmentsOf(last.location)) = 2
    /\ last.keys = <<<<"a">>, <<"k">>>>

(* C10 as stated: a Put that returns ErrLocationMustHaveAtLeastOneBucket,
   ErrKeyNotProvided or ErrInvalidLocationBucket has left the store as it
   was. *)
FailedPutChangesNothing ==
    (last.op = "Put" /\ last.err \in ValidationErrors) => ~last.changed

(* C10 as amended: a Put that returns ErrLocationMustHaveAtLeastOneBucket,
   ErrKeyNotProvided, or ErrInvalidLocationBucket for an empty first segment
   has left the store as it was; a Put that returns ErrInvalidLocationBucket
   for a later empty segment has created the missing containers named by the
   segments before it, and has written no key and changed nothing else. *)
FailedPutCreatesOnlyPrefix ==
    [][(last'.op = "Put" /\ last'.err \in ValidationErrors) =>
        LET segs == SegmentsOf(last'.location)
            n == IF last'.err = ErrInvalidLocationBucket
                 THEN FirstEmpty(segs) - 1 ELSE 0
        IN  store' = WithBuckets(store, segs, n)]_vars

\* a Put that created a container and then met an empty segment
FailedPutWitness ==
    /\ last.op = "Put" /\ last.err = ErrInvalidLocationBucket
    /\ last.changed

====
